---- MODULE Spec2Model ----
(***************************************************************************)
(* A model of app.py: the CSV visualizer with AI filtering.                *)
(*                                                                         *)
(* The session is a state machine whose state is st.session_state (df,     *)
(* filtered_df), the widgets' values (the uploaded file, the filter text)  *)
(* and what the last run of the script did and put on the page.  Every     *)
(* action is one run of the script, started by one user interaction.       *)
(*                                                                         *)
(* Text (the model's reply, the code, the prompt) is a sequence of         *)
(* characters, each character a one-letter string; the backtick is the     *)
(* character BT.  Messages shown to the user are TLA+ strings.             *)
(***************************************************************************)
EXTENDS Naturals, Sequences, FiniteSets, TLC

VARIABLES
    uploaded_file,  \* the file_uploader's value: a file of Files, or NoFile
    df,             \* st.session_state.df
    filtered_df,    \* st.session_state.filtered_df
    user_filter,    \* the text_area's value in the last run
    reply,          \* the text the remote model last answered with
    code,           \* the code last obtained from a reply by sanitizing it
    ui,             \* what the last run did, in order: calls of st.*, the POST, exec
    exc             \* the exception that ended the last run, or NoException

vars == <<uploaded_file, df, filtered_df, user_filter, reply, code, ui, exc>>

None == [kind |-> "None"]

----------------------------------------------------------------------------
(* Text *)

\* The backtick character (a TLA+ string cannot hold one).
BT == "backtick"

\* "```", the closing fence (line 48)
Fence == <<BT, BT, BT>>

\* "```python", the opening fence (line 48)
PyFence == Fence \o <<"p", "y", "t", "h", "o", "n">>

\* "filtered_df", the output variable (lines 50, 59)
Token == <<"f", "i", "l", "t", "e", "r", "e", "d", "_", "d", "f">>

\* The characters str.strip() removes, of those the model uses.
Whitespace == {" ", "\n"}

\* sub in s
Contains(s, sub) ==
    \E i \in 0..Len(s) :
        /\ i + Len(sub) <= Len(s)
        /\ SubSeq(s, i + 1, i + Len(sub)) = sub

\* s.replace(old, new): every occurrence, left to right, none overlapping
RECURSIVE Replace(_, _, _)
Replace(s, old, new) ==
    IF Len(s) < Len(old) THEN s
    ELSE IF SubSeq(s, 1, Len(old)) = old
         THEN new \o Replace(SubSeq(s, Len(old) + 1, Len(s)), old, new)
         ELSE <<Head(s)>> \o Replace(Tail(s), old, new)

RECURSIVE LStrip(_)
LStrip(s) == IF s # <<>> /\ Head(s) \in Whitespace THEN LStrip(Tail(s)) ELSE s

RECURSIVE RStrip(_)
RStrip(s) ==
    IF s # <<>> /\ s[Len(s)] \in Whitespace THEN RStrip(SubSeq(s, 1, Len(s) - 1)) ELSE s

\* s.strip()
Strip(s) == RStrip(LStrip(s))

\* sep.join(names)
RECURSIVE Join(_, _)
Join(names, sep) ==
    IF names = <<>> THEN <<>>
    ELSE IF Len(names) = 1 THEN names[1]
    ELSE names[1] \o sep \o Join(Tail(names), sep)

\* Lines 46 and 48 without the second replace: a sanitizer that removes only the
\* opening fence.
SanitizeOpeningOnly(text) == Strip(Replace(Strip(text), PyFence, <<>>))

\* Lines 46 and 48: the reply trimmed, every "```python" removed, then every
\* "```", then trimmed again.
Sanitize(text) == Strip(Replace(Replace(Strip(text), PyFence, <<>>), Fence, <<>>))

----------------------------------------------------------------------------
(* Tables *)

\* A pandas DataFrame: its column names in order, each column's dtype, and its
\* rows, each a tuple of cells in column order.  Cells are text as in the CSV.
Table(columns, dtypes, rows) ==
    [kind |-> "table", columns |-> columns, dtypes |-> dtypes, rows |-> rows]

\* A pandas Series: what df[col] is.
Series(values) == [kind |-> "series", values |-> values]

\* A value that is neither None nor a pandas object, such as an int.
Scalar == [kind |-> "scalar"]

ColIndex(data, col) == CHOOSE i \in 1..Len(data.columns) : data.columns[i] = col

\* df[col]
Column(data, col) ==
    Series([i \in 1..Len(data.rows) |-> data.rows[i][ColIndex(data, col)]])

\* Whether a value has the attribute .empty (a DataFrame or a Series has).
HasEmpty(v) == v.kind \in {"table", "series"}

\* v.empty: some axis has length 0
Empty(v) ==
    IF v.kind = "table" THEN v.rows = <<>> \/ v.columns = <<>> ELSE v.values = <<>>

\* The rows head() keeps by default.
HeadRows == 5

\* data.head()
head(data) ==
    IF data.kind = "table"
    THEN [data EXCEPT !.rows = SubSeq(data.rows, 1, IF Len(data.rows) < HeadRows
                                                      THEN Len(data.rows) ELSE HeadRows)]
    ELSE [data EXCEPT !.values = SubSeq(data.values, 1, IF Len(data.values) < HeadRows
                                                          THEN Len(data.values) ELSE HeadRows)]

RECURSIVE SelectCols(_, _, _)
SelectCols(columns, dtypes, keep) ==
    IF columns = <<>> THEN <<>>
    ELSE (IF Head(dtypes) \in keep THEN <<Head(columns)>> ELSE <<>>)
         \o SelectCols(Tail(columns), Tail(dtypes), keep)

\* Line 122 with every column taken for numeric.
AllColumns(data) == data.columns

\* Line 122: data.select_dtypes(include=["number"]).columns
numeric_cols(data) == SelectCols(data.columns, data.dtypes, {"int64", "float64"})

\* The column names of the uploaded files.
Sales == <<"s", "a", "l", "e", "s">>
Year == <<"y", "e", "a", "r">>
Region == <<"r", "e", "g", "i", "o", "n">>
Name == <<"n", "a", "m", "e">>

\* The files a user may upload.
Files == {"sales.csv", "header.csv", "names.csv", "broken.csv"}

\* The file_uploader's value when it holds no file (None, which is falsy).
NoFile == "None"

NoException == [type |-> "none", text |-> ""]

\* Line 98: pd.read_csv(uploaded_file), which raises on text that is no CSV and
\* gives every column of a file with a header and no rows the dtype object.
read_csv(file) ==
    CASE file = "sales.csv" ->
            [raised |-> NoException,
             value |-> Table(<<Sales, Year, Region>>, <<"int64", "int64", "object">>,
                             << <<"1500", "2023", "West">>, <<"500", "2022", "East">> >>)]
      [] file = "header.csv" ->
            [raised |-> NoException,
             value |-> Table(<<Sales, Region>>, <<"object", "object">>, <<>>)]
      [] file = "names.csv" ->
            [raised |-> NoException,
             value |-> Table(<<Name>>, <<"object">>, << <<"Ann">> >>)]
      [] OTHER ->
            [raised |-> [type |-> "ParserError", text |-> "Error tokenizing data"],
             value |-> None]

----------------------------------------------------------------------------
(* The remote inference client *)

\* What the endpoint may answer: a status and the JSON body, of which the model
\* keeps the list of the choices' message contents (absent from an error body).
Responses(replies) ==
    [status_code : {200}, choices : {<<r>> : r \in replies}, has_choices : {TRUE}]
    \cup [status_code : {200}, choices : {<<>>}, has_choices : BOOLEAN]
    \cup [status_code : {401, 500}, choices : {<<>>}, has_choices : {FALSE}]

\* Lines 25-27 without line 26: the status is never looked at.
AskWithoutRaiseForStatus(prompt, response) ==
    IF ~response.has_choices
    THEN [raised |-> [type |-> "KeyError", text |-> "'choices'"], value |-> <<>>]
    ELSE IF response.choices = <<>>
    THEN [raised |-> [type |-> "IndexError", text |-> "list index out of range"],
          value |-> <<>>]
    ELSE [raised |-> NoException, value |-> response.choices[1]]

\* Lines 10-27: the POST of the prompt has been answered with `response`;
\* raise_for_status() raises on a 4xx or 5xx status, and the indexing of the body
\* raises on a body of another shape.
ask_together_for_filter(prompt, response) ==
    IF response.status_code >= 400
    THEN [raised |-> [type |-> "HTTPError", text |-> "Error for url"], value |-> <<>>]
    ELSE IF ~response.has_choices
    THEN [raised |-> [type |-> "KeyError", text |-> "'choices'"], value |-> <<>>]
    ELSE IF response.choices = <<>>
    THEN [raised |-> [type |-> "IndexError", text |-> "list index out of range"],
          value |-> <<>>]
    ELSE [raised |-> NoException, value |-> response.choices[1]]

----------------------------------------------------------------------------
(* The filter synthesizer *)

\* The fixed text of the prompt (lines 31-44), in pieces around its two holes.
PromptHead ==
    <<"\nYou are a Python data analyst.\nYou have a pandas dataframe called ",
      BT, "d", "f", BT, " with columns: ">>
PromptMiddle ==
    <<"\n\nUser wants to filter the data with this instruction:\n", "\"", "\"", "\"">>
PromptTail ==
    <<"\"", "\"", "\"", "\n\nWrite a single line of valid Python code assigning ",
      "the filtered dataframe to variable ", BT>> \o Token \o
    <<BT, ".\n\nExample:\n">> \o Token \o
    <<" = df[df[\"column\"] > 1000]",
      "\n\nDo NOT include explanations or markdown. Only output the Python code.\n">>

\* Lines 30-44 with the instruction trimmed before it is put in the prompt.
BuildPromptTrimmed(data, user_comment) ==
    PromptHead \o Join(data.columns, <<",", " ">>) \o PromptMiddle
    \o Strip(user_comment) \o PromptTail

\* Lines 30-44: columns = ", ".join(df.columns), and the f-string.
build_prompt(data, user_comment) ==
    PromptHead \o Join(data.columns, <<",", " ">>) \o PromptMiddle
    \o user_comment \o PromptTail

\* Line 50 looking for "df" instead of the output variable.
MentionsDf(c) == Contains(c, <<"d", "f">>)

\* Line 50: "filtered_df" in code
has_output_variable(c) == Contains(c, Token)

\* Lines 54 and 58 the other way round.
ExecThenShow(c) == <<[op |-> "exec", arg |-> c], [op |-> "st.code", arg |-> c]>>

\* Lines 54-58: the code is shown, then executed.
show_then_exec(c) == <<[op |-> "st.code", arg |-> c], [op |-> "exec", arg |-> c]>>

\* Line 64 catching KeyError alone.
IsKeyError(e) == e.type = "KeyError"

\* Line 64: whether `except Exception` catches e.  SystemExit, KeyboardInterrupt
\* and GeneratorExit derive from BaseException and not from Exception.
IsException(e) == e.type \notin {"SystemExit", "KeyboardInterrupt", "GeneratorExit"}

\* Line 59: local_vars.get(name)
Get(local_vars, name) == IF name \in DOMAIN local_vars THEN local_vars[name] ELSE None

\* Line 60 without `filtered_df is None or`: None has no attribute .empty.
CheckEmptyOnly(v) ==
    IF ~HasEmpty(v) THEN "AttributeError"
    ELSE IF Empty(v) THEN "no rows" ELSE "rows"

\* Line 60 without `or filtered_df.empty`.
CheckNoneOnly(v) == IF v.kind = "None" THEN "no rows" ELSE "rows"

\* Line 60: `filtered_df is None or filtered_df.empty`, where reading .empty of
\* a value that has none raises AttributeError.
check_result(v) ==
    IF v.kind = "None" THEN "no rows"
    ELSE IF ~HasEmpty(v) THEN "AttributeError"
    ELSE IF Empty(v) THEN "no rows" ELSE "rows"

\* The rows of `rows` that `mask` keeps, in order: df[mask]
RECURSIVE SelectRows(_, _, _)
SelectRows(rows, mask, i) ==
    IF i > Len(rows) THEN <<>>
    ELSE (IF mask[i] THEN <<rows[i]>> ELSE <<>>) \o SelectRows(rows, mask, i + 1)

\* Every table a row filter makes of data, the empty one and data itself included.
RowSubsets(data) ==
    {[data EXCEPT !.rows = SelectRows(data.rows, mask, 1)] :
        mask \in [1..Len(data.rows) -> BOOLEAN]}

\* df[[last column]]
ProjectLast(data) ==
    LET n == Len(data.columns) IN
    Table(<<data.columns[n]>>, <<data.dtypes[n]>>,
          [i \in 1..Len(data.rows) |-> <<data.rows[i][n]>>])

\* What the executed code may leave bound to a name.
Results(data) ==
    {None, Scalar, Series(<<>>), Column(data, data.columns[1]), ProjectLast(data)}
    \cup RowSubsets(data)

\* Line 58: what exec(code, {}, local_vars) may do, the code being any text: raise
\* (an Exception, or a BaseException that is none), or end with local_vars
\* holding df (rebound or not) and perhaps filtered_df.  Tables are values: the
\* code is taken to build new tables, as a pandas filter does, and not to change
\* the caller's DataFrame in place.
ExecOutcomes(data) ==
    {[raised |-> e, local_vars |-> [df |-> data]] :
        e \in {[type |-> "NameError", text |-> "name 'x' is not defined"],
               [type |-> "KeyError", text |-> "'column'"],
               [type |-> "SystemExit", text |-> ""]}}
    \cup {[raised |-> NoException, local_vars |-> [df |-> d]] : d \in RowSubsets(data)}
    \cup {[raised |-> NoException, local_vars |-> [df |-> data, filtered_df |-> v]] :
            v \in Results(data)}

\* Lines 56-66: the try block, given what exec does.  The run's record keeps how
\* exec ended ("exec.end").
run_code(data, outcome) ==
    LET e == outcome.raised
        v == Get(outcome.local_vars, "filtered_df")
        checked == check_result(v)
        ended == <<[op |-> "exec.end", arg |-> outcome]>>
        failed(x) ==
            IF IsException(x)
            THEN [ret |-> data, raised |-> NoException,
                  ui |-> ended
                         \o <<[op |-> "st.error",
                               arg |-> "Error executing AI-generated code: " \o x.text]>>]
            ELSE [ret |-> None, raised |-> x, ui |-> ended]
    IN  IF e # NoException THEN failed(e)
        ELSE IF checked = "AttributeError"
        THEN failed([type |-> "AttributeError",
                     text |-> "object has no attribute 'empty'"])
        ELSE IF checked = "no rows"
        THEN [ret |-> data, raised |-> NoException,
              ui |-> ended
                     \o <<[op |-> "st.warning",
                           arg |-> "The filter returned no rows. Please try a different filter."]>>]
        ELSE [ret |-> v, raised |-> NoException, ui |-> ended]

\* Lines 29-66.  `response` is the endpoint's answer and `outcome` what executing
\* the code does; the value is what the call returns (ret) or raises (raised),
\* what it did on the way (ui), and its locals reply and code.
filter_dataframe_with_ai(data, user_comment, response, outcome) ==
    LET prompt == build_prompt(data, user_comment)
        post == <<[op |-> "requests.post",
                   arg |-> [prompt |-> prompt, status_code |-> response.status_code]]>>
        asked == ask_together_for_filter(prompt, response)
        text == Sanitize(asked.value)
        ran == run_code(data, outcome)
    IN  IF asked.raised # NoException
        THEN [ret |-> None, raised |-> asked.raised, ui |-> post,
              reply |-> <<>>, code |-> <<>>]
        ELSE IF ~has_output_variable(text)
        THEN [ret |-> data, raised |-> NoException,
              ui |-> post \o <<[op |-> "st.error",
                    arg |-> "AI did not return a valid filter code. Try simplifying your instruction."]>>,
              reply |-> asked.value, code |-> text]
        ELSE [ret |-> ran.ret, raised |-> ran.raised,
              ui |-> post \o show_then_exec(text) \o ran.ui,
              reply |-> asked.value, code |-> text]

----------------------------------------------------------------------------
(* The chart renderer *)

\* Line 77: bins=20
Bins == 20

\* Line 120: the options of the chart type selectbox
ChartTypes == {"Line", "Bar", "Scatter", "Histogram"}

\* Line 69: plt.clf()
ClearedFigure ==
    [artist |-> "none", data |-> <<>>, bins |-> <<>>, title |-> "",
     xlabel |-> <<>>, ylabel |-> <<>>]

\* Lines 68-84.  The value is the figure plt holds afterwards and what is put on
\* the page.
plot_chart(data, chart_type, x_col, y_col) ==
    LET labelled(artist, series, bins) ==
            [artist |-> artist, data |-> series, bins |-> bins,
             title |-> chart_type \o " Chart", xlabel |-> x_col, ylabel |-> y_col]
        xy == <<Column(data, x_col), Column(data, y_col)>>
        figure ==
            CASE chart_type = "Line" -> labelled("plot", xy, <<>>)
              [] chart_type = "Bar" -> labelled("bar", xy, <<>>)
              [] chart_type = "Scatter" -> labelled("scatter", xy, <<>>)
              [] chart_type = "Histogram" ->
                    labelled("hist", <<Column(data, y_col)>>, <<Bins>>)
              [] OTHER -> ClearedFigure
    IN  IF chart_type \in ChartTypes
        THEN [figure |-> figure, ui |-> <<[op |-> "st.pyplot", arg |-> figure]>>]
        ELSE [figure |-> figure,
              ui |-> <<[op |-> "st.warning", arg |-> "Invalid chart type selected."]>>]

----------------------------------------------------------------------------
(* The session controller: one run of the script *)

\* Lines 96-107: the upload section.  `stopped` says that st.stop() ended the run.
upload_section(file, old_df) ==
    LET read == read_csv(file) IN
    IF file = NoFile
    THEN [df |-> old_df, stopped |-> FALSE, ui |-> <<>>]
    ELSE IF read.raised # NoException
    THEN [df |-> old_df, stopped |-> TRUE,
          ui |-> <<[op |-> "st.error", arg |-> "Failed to load CSV: " \o read.raised.text]>>]
    ELSE [df |-> read.value, stopped |-> FALSE,
          ui |-> <<[op |-> "st.dataframe", arg |-> head(read.value)]>>]

\* Lines 116-129: the chart section, run with session_state.filtered_df = shown.
\* `clicked` says that this run was started by Generate Chart, the selectboxes
\* holding chart_type, x_axis and y_axis.
chart_section(shown, clicked, chart_type, x_axis, y_axis) ==
    LET preview == <<[op |-> "st.dataframe", arg |-> head(shown)]>>
        offered == numeric_cols(shown)
        drawn == plot_chart(shown, chart_type, x_axis, y_axis)
    IN  IF shown.kind = "None" THEN [raised |-> NoException, ui |-> <<>>]
        ELSE IF shown.kind # "table"
        THEN [raised |-> [type |-> "AttributeError",
                          text |-> "'Series' object has no attribute 'columns'"],
              ui |-> preview]
        ELSE IF Len(offered) = 0
        THEN [raised |-> NoException,
              ui |-> preview \o <<[op |-> "st.warning",
                                   arg |-> "No numeric columns available for Y-axis."]>>]
        ELSE IF clicked
        THEN [raised |-> NoException,
              ui |-> preview
                     \o <<[op |-> "plot_chart",
                           arg |-> [chart_type |-> chart_type, x_col |-> x_axis,
                                    y_col |-> y_axis]]>>
                     \o drawn.ui]
        ELSE [raised |-> NoException, ui |-> preview]

\* Whether the last run put the Apply Filter button on the page (line 109).
ApplyOffered == uploaded_file # NoFile /\ read_csv(uploaded_file).raised = NoException

\* Whether the last run put the Generate Chart button on the page (line 128): it
\* passed the upload section, no exception ended it before, and the y selectbox
\* had options.
ChartOffered ==
    /\ uploaded_file = NoFile \/ read_csv(uploaded_file).raised = NoException
    /\ exc = NoException
    /\ filtered_df.kind = "table"
    /\ Len(numeric_cols(filtered_df)) > 0

Range(s) == {s[i] : i \in 1..Len(s)}

\* Lines 89-129: one run of the script, from session_state (df, filtered_df) and
\* the widgets' values: the uploaded file, the filter text, and which button, if
\* any, started the run.  The value is the state the run leaves.
script(file, text, apply, response, outcome, generate, chart_type, x_axis, y_axis) ==
    LET top == upload_section(file, df)
        f == filter_dataframe_with_ai(top.df, text, response, outcome)
        kept == chart_section(filtered_df, generate, chart_type, x_axis, y_axis)
        new == chart_section(f.ret, generate, chart_type, x_axis, y_axis)
    IN  IF top.stopped
        THEN [df |-> top.df, filtered_df |-> filtered_df, reply |-> <<>>, code |-> <<>>,
              ui |-> top.ui, exc |-> NoException]
        ELSE IF file # NoFile /\ apply /\ Strip(text) = <<>>
        THEN [df |-> top.df, filtered_df |-> filtered_df, reply |-> <<>>, code |-> <<>>,
              ui |-> top.ui
                     \o <<[op |-> "st.warning", arg |-> "Please enter a filter instruction."]>>
                     \o kept.ui,
              exc |-> kept.raised]
        ELSE IF file # NoFile /\ apply /\ f.raised # NoException
        THEN [df |-> top.df, filtered_df |-> filtered_df, reply |-> f.reply,
              code |-> f.code, ui |-> top.ui \o f.ui, exc |-> f.raised]
        ELSE IF file # NoFile /\ apply
        THEN [df |-> top.df, filtered_df |-> f.ret, reply |-> f.reply, code |-> f.code,
              ui |-> top.ui \o f.ui \o new.ui, exc |-> new.raised]
        ELSE [df |-> top.df, filtered_df |-> filtered_df, reply |-> <<>>, code |-> <<>>,
              ui |-> top.ui \o kept.ui, exc |-> kept.raised]

\* The state after a run.
Becomes(file, text, after) ==
    /\ uploaded_file' = file
    /\ user_filter' = text
    /\ df' = after.df
    /\ filtered_df' = after.filtered_df
    /\ reply' = after.reply
    /\ code' = after.code
    /\ ui' = after.ui
    /\ exc' = after.exc

----------------------------------------------------------------------------
(* The inputs *)

\* Line 107: what the user may type as the filter instruction: nothing, blanks,
\* and an instruction with blanks around it.
Instructions == {<<>>, <<" ", "\n">>, <<" ", "s", ">", "1", "\n">>}

Assign == <<" ", "=", " ", "d", "f">>

\* What the remote model may answer in a session: the code alone, the code in a
\* fence, the code with blanks around it, text without the output variable, the
\* same in a fence, the output variable broken by a fence, and nothing.
SessionReplies ==
    { Token \o Assign,
      PyFence \o <<"\n">> \o Token \o Assign \o <<"\n">> \o Fence,
      <<" ">> \o Token \o Assign \o <<"\n">>,
      <<"d", "f">>,
      PyFence \o <<"\n", "d", "f", "\n">> \o Fence,
      <<"f", "i", "l", "t", "e", "r", "e", "d">> \o Fence \o <<"_", "d", "f">>,
      <<>> }

\* An answer and an execution that are never looked at.
NoResponse == [status_code |-> 200, choices |-> <<>>, has_choices |-> FALSE]
NoOutcome == [raised |-> NoException, local_vars |-> [df |-> None]]

\* Whether a run started by Apply Filter gets as far as line 58.
Executes(text, response) ==
    /\ Strip(text) # <<>>
    /\ ask_together_for_filter(<<>>, response).raised = NoException
    /\ has_output_variable(Sanitize(response.choices[1]))

----------------------------------------------------------------------------
(* The actions: each is one user interaction and the run of the script it starts *)

Init ==
    /\ uploaded_file = NoFile
    /\ df = None
    /\ filtered_df = None
    /\ user_filter = <<>>
    /\ reply = <<>>
    /\ code = <<>>
    /\ ui = <<>>
    /\ exc = NoException

\* The user puts a file in the uploader.
Upload ==
    \E file \in Files :
        Becomes(file, user_filter,
                script(file, user_filter, FALSE, NoResponse, NoOutcome,
                       FALSE, "Line", <<>>, <<>>))

\* The user takes the file out of the uploader.
RemoveFile ==
    /\ uploaded_file # NoFile
    /\ Becomes(NoFile, user_filter,
               script(NoFile, user_filter, FALSE, NoResponse, NoOutcome,
                      FALSE, "Line", <<>>, <<>>))

\* The user types an instruction and presses Apply Filter; the endpoint answers
\* and, if the code is executed, the execution does what it does.
ApplyFilter ==
    /\ ApplyOffered
    /\ \E text \in Instructions :
       \E response \in
            IF Strip(text) = <<>> THEN {NoResponse} ELSE Responses(SessionReplies) :
       \E outcome \in
            IF Executes(text, response)
            THEN ExecOutcomes(read_csv(uploaded_file).value) ELSE {NoOutcome} :
            Becomes(uploaded_file, text,
                    script(uploaded_file, text, TRUE, response, outcome,
                           FALSE, "Line", <<>>, <<>>))

\* The user picks the chart type and the axes and presses Generate Chart.
GenerateChart ==
    /\ ChartOffered
    /\ \E chart_type \in ChartTypes :
       \E x_axis \in Range(filtered_df.columns) :
       \E y_axis \in Range(numeric_cols(filtered_df)) :
            Becomes(uploaded_file, user_filter,
                    script(uploaded_file, user_filter, FALSE, NoResponse, NoOutcome,
                           TRUE, chart_type, x_axis, y_axis))

Next == Upload \/ RemoveFile \/ ApplyFilter \/ GenerateChart

Spec == Init /\ [][Next]_vars

----------------------------------------------------------------------------
(* The sanitizing step on its own: lines 46-48 applied to a reply, and again to
   what they gave *)

\* How many pieces a reply is put together from.
MaxChunks == 4

\* The pieces: one, two and three backticks, the language tag, a blank, a letter.
Chunks ==
    {<<BT>>, <<BT, BT>>, Fence, <<"p", "y", "t", "h", "o", "n">>, <<" ">>, <<"x">>}

RECURSIVE Flatten(_)
Flatten(chunks) == IF chunks = <<>> THEN <<>> ELSE Head(chunks) \o Flatten(Tail(chunks))

BoundedReplies ==
    {Flatten(chunks) : chunks \in UNION {[1..n -> Chunks] : n \in 0..MaxChunks}}

SanitizeInit ==
    /\ reply \in BoundedReplies
    /\ code = <<>>
    /\ ui = <<>>
    /\ uploaded_file = NoFile
    /\ df = None
    /\ filtered_df = None
    /\ user_filter = <<>>
    /\ exc = NoException

\* Lines 46-48 on the reply.
SanitizeReply ==
    /\ ui = <<>>
    /\ code' = Sanitize(reply)
    /\ ui' = <<[op |-> "sanitize", arg |-> reply]>>
    /\ UNCHANGED <<uploaded_file, df, filtered_df, user_filter, reply, exc>>

\* Lines 46-48 on the code they gave.
SanitizeAgain ==
    /\ Len(ui) = 1
    /\ code' = Sanitize(code)
    /\ ui' = Append(ui, [op |-> "sanitize", arg |-> code])
    /\ UNCHANGED <<uploaded_file, df, filtered_df, user_filter, reply, exc>>

SanitizeNext == SanitizeReply \/ SanitizeAgain

SpecSanitize == SanitizeInit /\ [][SanitizeNext]_vars

----------------------------------------------------------------------------
(* What the claims read off the record of the last run *)

Did(log, op) == \E i \in 1..Len(log) : log[i].op = op

Showed(log, op, message) == \E i \in 1..Len(log) : log[i].op = op /\ log[i].arg = message

\* The last run called the endpoint and got a reply back from it.
ReplyReceived ==
    /\ Did(ui, "requests.post")
    /\ exc.type \notin {"HTTPError", "KeyError", "IndexError"}

\* The last run called the endpoint, which answered with a non-success status.
TransportFailed(log) ==
    \E i \in 1..Len(log) : log[i].op = "requests.post" /\ log[i].arg.status_code >= 400

NoRowsMessage == "The filter returned no rows. Please try a different filter."

InvalidCodeMessage ==
    "AI did not return a valid filter code. Try simplifying your instruction."

IsNumeric(data, col) == data.dtypes[ColIndex(data, col)] \in {"int64", "float64"}

----------------------------------------------------------------------------
(* The claims *)

\* C1: whenever the sanitized reply does not contain the output variable, the
\* dataset kept as the filter's result is the input dataset, an error message is
\* shown, no code is shown and the reply is not executed.
C1_SynthesisFailure ==
    (ReplyReceived /\ ~Contains(Sanitize(reply), Token))
        => /\ filtered_df = df
           /\ Showed(ui, "st.error", InvalidCodeMessage)
           /\ ~Did(ui, "st.code")
           /\ ~Did(ui, "exec")
           /\ exc = NoException

\* C1's case: a reply that holds a fence and, once sanitized, no output variable
\* has been answered to a request.
C1_Witness ==
    /\ ReplyReceived
    /\ Contains(reply, Fence)
    /\ ~Contains(Sanitize(reply), Token)
    /\ filtered_df = df
    /\ df.kind = "table"

\* C2: whenever the executed code ends without raising and leaves filtered_df
\* unbound or bound to an empty table, the input dataset is returned and the
\* no-rows warning is shown, with no error message and no exception.
C2_NoMatch ==
    \A i \in 1..Len(ui) :
        (/\ ui[i].op = "exec.end"
         /\ ui[i].arg.raised = NoException
         /\ LET v == Get(ui[i].arg.local_vars, "filtered_df")
            IN  \/ "filtered_df" \notin DOMAIN ui[i].arg.local_vars
                \/ v.kind = "table" /\ Empty(v))
        => /\ filtered_df = df
           /\ Showed(ui, "st.warning", NoRowsMessage)
           /\ ~Did(ui, "st.error")
           /\ exc = NoException

\* C2's case: the code ran on a dataset with rows and left an empty table.
C2_Witness ==
    \E i \in 1..Len(ui) :
        /\ ui[i].op = "exec.end"
        /\ ui[i].arg.raised = NoException
        /\ "filtered_df" \in DOMAIN ui[i].arg.local_vars
        /\ ui[i].arg.local_vars.filtered_df.kind = "table"
        /\ Empty(ui[i].arg.local_vars.filtered_df)
        /\ ~Empty(df)
        /\ filtered_df = df

\* C3 as stated: whenever the executed code raises, no exception ends the run,
\* the input dataset is returned and an error message with the error's text is
\* shown.
C3_AnyErrorCaught ==
    \A i \in 1..Len(ui) :
        (ui[i].op = "exec.end" /\ ui[i].arg.raised # NoException)
        => /\ exc = NoException
           /\ filtered_df = df
           /\ Showed(ui, "st.error",
                     "Error executing AI-generated code: " \o ui[i].arg.raised.text)

\* C3 as amended: whenever the executed code raises an exception that derives
\* from Exception, no exception ends the run, the input dataset is returned and
\* an error message with the exception's text is shown.
C3_ExceptionCaught ==
    \A i \in 1..Len(ui) :
        (/\ ui[i].op = "exec.end"
         /\ ui[i].arg.raised # NoException
         /\ ui[i].arg.raised.type \notin {"SystemExit", "KeyboardInterrupt", "GeneratorExit"})
        => /\ exc = NoException
           /\ filtered_df = df
           /\ Showed(ui, "st.error",
                     "Error executing AI-generated code: " \o ui[i].arg.raised.text)

\* C3's case: the code raised NameError and the run went on.
C3_Witness ==
    \E i \in 1..Len(ui) :
        /\ ui[i].op = "exec.end"
        /\ ui[i].arg.raised.type = "NameError"
        /\ filtered_df = df
        /\ exc = NoException

\* C4: in every run, an execution of code comes right after a display of code,
\* and the code displayed is the code executed.
C4_ShownBeforeExecuted ==
    \A i \in 1..Len(ui) :
        ui[i].op = "exec"
        => /\ i > 1
           /\ ui[i - 1].op = "st.code"
           /\ ui[i - 1].arg = ui[i].arg
           /\ ui[i].arg = code

\* C4's case: a fenced reply was sanitized, shown and executed.
C4_Witness == Did(ui, "exec") /\ Contains(reply, PyFence) /\ code # reply

\* C5: a run in which the endpoint answers with a non-success status ends with
\* the transport error, shows and executes no code, and leaves the session's df
\* and filtered_df as they were.
C5_TransportError ==
    [][TransportFailed(ui')
        => /\ exc'.type = "HTTPError"
           /\ ~Did(ui', "st.code")
           /\ ~Did(ui', "exec")
           /\ ~Did(ui', "st.error")
           /\ df' = df
           /\ filtered_df' = filtered_df]_vars

\* C5's case: the endpoint failed a request made while an earlier filter's
\* result, other than the dataset, was in the session.
C5_Witness ==
    /\ TransportFailed(ui)
    /\ exc.type = "HTTPError"
    /\ filtered_df.kind = "table"
    /\ filtered_df # df

\* C6 as stated: the Filtered Dataset in the session is never an empty table.
C6_NeverEmpty == filtered_df.kind = "table" => ~Empty(filtered_df)

\* C6 as amended: whenever the Filtered Dataset in the session becomes an empty
\* table, it is the current Dataset, which is empty itself; a filter result that
\* is not the Dataset is accepted only if it is not empty.
C6_EmptyOnlyAsDataset ==
    [][(filtered_df' # filtered_df /\ HasEmpty(filtered_df') /\ Empty(filtered_df'))
        => filtered_df' = df']_vars

\* C6's case: the Filtered Dataset is the uploaded dataset without rows, kept
\* after the executed code left an empty table.
C6_Witness ==
    /\ filtered_df.kind = "table"
    /\ Empty(filtered_df)
    /\ filtered_df = df
    /\ Did(ui, "exec")

\* C7: sanitizing what the sanitizing step gave yields the same text.
C7_SanitizeIdempotent == Len(ui) = 2 => code = ui[2].arg

\* C7's case: removing the opening fence of the reply brings three backticks
\* together, and the step has been applied twice.
C7_Witness ==
    /\ Len(ui) = 2
    /\ reply = <<BT>> \o PyFence \o <<BT, BT>>
    /\ ~Contains(Replace(reply, Fence, <<>>), Fence)
    /\ Contains(Replace(reply, PyFence, <<>>), Fence)

\* C8: the prompt sent to the endpoint contains the dataset's column names joined
\* by ", " in their order, hence each of them, and the instruction as typed.
C8_PromptContains ==
    \A i \in 1..Len(ui) :
        ui[i].op = "requests.post"
        => /\ Contains(ui[i].arg.prompt, Join(df.columns, <<",", " ">>))
           /\ \A c \in Range(df.columns) : Contains(ui[i].arg.prompt, c)
           /\ Contains(ui[i].arg.prompt, user_filter)

\* C8's case: a prompt was sent for a dataset of several columns and an
\* instruction with blanks around it.
C8_Witness ==
    /\ Did(ui, "requests.post")
    /\ Len(df.columns) > 1
    /\ Strip(user_filter) # user_filter

\* C9: a histogram drawn by plot_chart is the same figure whatever the x column.
C9_HistogramIgnoresX ==
    \A i \in 1..Len(ui) :
        (ui[i].op = "plot_chart" /\ ui[i].arg.chart_type = "Histogram")
        => \A x \in Range(filtered_df.columns) :
              plot_chart(filtered_df, "Histogram", x, ui[i].arg.y_col).figure
              = plot_chart(filtered_df, "Histogram", ui[i].arg.x_col, ui[i].arg.y_col).figure

\* C10: plot_chart is called only with a y column of the Filtered Dataset whose
\* dtype is a number; a Filtered Dataset without such a column offers no
\* Generate Chart button.
C10_ChartGating ==
    /\ \A i \in 1..Len(ui) :
          ui[i].op = "plot_chart"
          => /\ filtered_df.kind = "table"
             /\ ui[i].arg.y_col \in Range(filtered_df.columns)
             /\ IsNumeric(filtered_df, ui[i].arg.y_col)
    /\ (/\ filtered_df.kind = "table"
        /\ \A c \in Range(filtered_df.columns) : ~IsNumeric(filtered_df, c))
       => ~ChartOffered /\ ~Did(ui, "plot_chart") /\ ~Did(ui, "st.pyplot")

\* C10's case: a chart was generated from a Filtered Dataset that has a column
\* that is not numeric.
C10_Witness ==
    /\ Did(ui, "plot_chart")
    /\ Did(ui, "st.pyplot")
    /\ \E c \in Range(filtered_df.columns) : ~IsNumeric(filtered_df, c)

====
